---- MODULE Spec2Model ----
(***************************************************************************)
(* LNP/BP universal invoice (LNPBP-38): the Invoice aggregate of           *)
(* src/rust/src/base.rs, its mutators, asset classification, beneficiary   *)
(* enumeration, ordering and the canonical encoding.                       *)
(*                                                                         *)
(* Value conventions.  Option<T> is a sequence: <<>> is None, <<v>> is     *)
(* Some(v).  A String is the sequence of its character codes, so the empty *)
(* string is <<>>.  A Vec<T> is a sequence.  Integers that the source      *)
(* keeps in fixed width (u64, u32, u16, u8, i64) are one natural each; no  *)
(* operation of the invoice does arithmetic on them.                       *)
(***************************************************************************)
EXTENDS Integers, Sequences, FiniteSets

VARIABLES
    inv,      \* the Invoice being built or read
    last,     \* the last call on inv: [op, arg, ret]
    other,    \* a clone of the invoice taken earlier (Invoice: Clone)
    ord,      \* the last comparison of inv with other: <<>> or <<[op, val]>>
    iter,     \* the BeneficiariesIter handed out last: <<>> or <<[index]>>
    out,      \* what the iterator has returned so far, in order
    target,   \* the chain last given to classify_asset: Option<Chain>
    cls,      \* the AssetClass it returned: <<>> before the first call
    wire,     \* bytes last written by, or handed to, the binary codec
    text,     \* text last written by the text codec
    hash,     \* the last signature_hash call: <<>> or <<[of, digest]>>
    calls,    \* mutator calls made while building an invoice for the codecs
    input,    \* the string handed to a FromStr implementation
    parsed,   \* what it returned: <<>> before the call
    atomic,   \* what atomic_value returned for a parsed amount
    rgb       \* the last is_rgb / rgb_asset call: <<>> or <<[op, val]>>

vars ==
    <<inv, last, other, ord, iter, out, target, cls, wire, text, hash, calls,
      input, parsed, atomic, rgb>>

---------------------------------------------------------------------------
(* Bounds of the model *)

\* largest number used for an amount, a timestamp or a count
MaxVal == 1
\* how many distinct consignment endpoints callers pass
MaxEndpoints == 1
\* how many alternate beneficiaries a received invoice may carry
MaxAlts == 2
\* how many times next() is called on one iterator past its end
MaxPastEnd == 2

---------------------------------------------------------------------------
(* Option and result helpers *)

None == <<>>
Some(v) == <<v>>
IsSome(o) == o # <<>>

\* how a call's return value is recorded in last.ret
RetTrue == "true"
RetFalse == "false"
RetUnit == "()"
Ret(b) == IF b THEN RetTrue ELSE RetFalse

---------------------------------------------------------------------------
(* Value types *)

\* enum AmountExt { Any, Normal(u64), Milli(u64, u16) }
Any == [kind |-> "Any", int |-> 0, frac |-> 0]
Normal(n) == [kind |-> "Normal", int |-> n, frac |-> 0]
Milli(i, f) == [kind |-> "Milli", int |-> i, frac |-> f]

\* enum Recurrent { NonRecurrent, Seconds(u64), Months(u8), Years(u8) }
NonRecurrent == [kind |-> "NonRecurrent", n |-> 0]
Seconds(n) == [kind |-> "Seconds", n |-> n]
Months(n) == [kind |-> "Months", n |-> n]
Years(n) == [kind |-> "Years", n |-> n]

\* impl Default for Recurrent
RecurrentDefault == NonRecurrent

\* struct Quantity { min, max, default }
Quantity(min, max, default) == [min |-> min, max |-> max, default |-> default]

\* struct CurrencyData { iso4217, coins, fractions, price_provider }
CurrencyData(iso, coins, fractions, provider) ==
    [iso4217 |-> iso, coins |-> coins, fractions |-> fractions,
     price_provider |-> provider]

\* struct Details { commitment, source }
Details(commitment, source) == [commitment |-> commitment, source |-> source]

\* enum ConsignmentEndpoint { Storm(NodeAddr), RgbHttpJsonRpc(String) }
\* (a node address is written as the sequence of its bytes, like a String)
Storm(addr) == [kind |-> "Storm", addr |-> addr]
RgbHttpJsonRpc(url) == [kind |-> "RgbHttpJsonRpc", addr |-> url]

\* enum Network { Mainnet, Testnet3, Regtest, Signet, LiquidV1 }
Network == {"Mainnet", "Testnet3", "Regtest", "Signet", "LiquidV1"}

\* enum Beneficiary { Address, BlindUtxo, Descriptor, Psbt, Bolt, Unknown }
BeneficiaryKinds ==
    <<"Address", "BlindUtxo", "Descriptor", "Psbt", "Bolt", "Unknown">>
Beneficiary(kind, data) == [kind |-> kind, data |-> data]

---------------------------------------------------------------------------
(* The values callers pass in the model *)

Amounts == {Any} \cup {Normal(n) : n \in 1..MaxVal}
Recurrents == {NonRecurrent, Months(1)}
Expiries == 1..MaxVal
Quantities == {Quantity(0, None, 1)}
Currencies == {CurrencyData(<<85, 83, 68>>, 9, 99, <<117>>)}
\* the strings given to set_merchant and set_purpose: "" and one other
Strings == {<<>>, <<109>>}
DetailsValues == {Details(7, <<115>>)}
Endpoints ==
    {IF k % 2 = 1 THEN Storm(<<k>>) ELSE RgbHttpJsonRpc(<<k>>) : k \in 1..MaxEndpoints}
NetworkArgs == {"Mainnet", "Regtest"}
\* (public key, schnorr signature) pairs
Signatures == {[pubkey |-> 2, sig |-> 3]}
Beneficiaries ==
    {Beneficiary("Address", 1), Beneficiary("BlindUtxo", 2), Beneficiary("Bolt", 3)}

---------------------------------------------------------------------------
(* Invoice *)

\* Invoice::new: version 0, every optional field absent
new(beneficiary, amount, asset) ==
    [beneficiary |-> beneficiary,
     amount |-> IF IsSome(amount) THEN Normal(amount[1]) ELSE Any,
     asset |-> asset,
     version |-> 0,
     alt_beneficiaries |-> <<>>,
     recurrent |-> RecurrentDefault,
     expiry |-> None,
     quantity |-> None,
     currency_requirement |-> None,
     merchant |-> None,
     purpose |-> None,
     details |-> None,
     signature |-> None,
     consignment_endpoints |-> <<>>,
     network |-> None,
     unknown |-> <<>>]

\* what a mutator hands back: the invoice after the call and the bool returned
Res(i, b) == [inv |-> i, ret |-> b]

set_amount(i, amount) ==
    IF i.amount = amount THEN Res(i, FALSE)
    ELSE Res([i EXCEPT !.amount = amount, !.signature = None], TRUE)

set_recurrent(i, recurrent) ==
    IF i.recurrent = recurrent THEN Res(i, FALSE)
    ELSE Res([i EXCEPT !.recurrent = recurrent, !.signature = None], TRUE)

set_expiry(i, expiry) ==
    IF i.expiry = Some(expiry) THEN Res(i, FALSE)
    ELSE Res([i EXCEPT !.expiry = Some(expiry), !.signature = None], TRUE)

set_no_expiry(i) ==
    IF i.expiry = None THEN Res(i, FALSE)
    ELSE Res([i EXCEPT !.expiry = None, !.signature = None], TRUE)

set_quantity(i, quantity) ==
    IF i.quantity = Some(quantity) THEN Res(i, FALSE)
    ELSE Res([i EXCEPT !.quantity = Some(quantity), !.signature = None], TRUE)

remove_quantity(i) ==
    IF i.quantity = None THEN Res(i, FALSE)
    ELSE Res([i EXCEPT !.quantity = None, !.signature = None], TRUE)

set_currency_requirement(i, currency_data) ==
    LET cd == Some(currency_data) IN
    IF i.currency_requirement = cd THEN Res(i, FALSE)
    ELSE Res([i EXCEPT !.currency_requirement = cd, !.signature = None], TRUE)

remove_currency_requirement(i) ==
    IF i.currency_requirement = None THEN Res(i, FALSE)
    ELSE Res([i EXCEPT !.currency_requirement = None, !.signature = None], TRUE)

\* set_merchant without the normalisation of the empty string
set_merchant_raw(i, merchant) ==
    IF i.merchant = Some(merchant) THEN Res(i, FALSE)
    ELSE Res([i EXCEPT !.merchant = Some(merchant), !.signature = None], TRUE)

set_merchant(i, merchant) ==
    LET m == IF merchant = <<>> THEN None ELSE Some(merchant) IN
    IF i.merchant = m THEN Res(i, FALSE)
    ELSE Res([i EXCEPT !.merchant = m, !.signature = None], TRUE)

remove_merchant(i) ==
    IF i.merchant = None THEN Res(i, FALSE)
    ELSE Res([i EXCEPT !.merchant = None, !.signature = None], TRUE)

\* set_purpose without the normalisation of the empty string
set_purpose_raw(i, purpose) ==
    IF i.purpose = Some(purpose) THEN Res(i, FALSE)
    ELSE Res([i EXCEPT !.purpose = Some(purpose), !.signature = None], TRUE)

set_purpose(i, purpose) ==
    LET p == IF purpose = <<>> THEN None ELSE Some(purpose) IN
    IF i.purpose = p THEN Res(i, FALSE)
    ELSE Res([i EXCEPT !.purpose = p, !.signature = None], TRUE)

\* remove_purpose with the body of remove_merchant left in front of it
remove_purpose_and_merchant(i) ==
    IF i.purpose = None THEN Res(i, FALSE)
    ELSE Res([i EXCEPT !.merchant = None, !.purpose = None, !.signature = None], TRUE)

remove_purpose(i) ==
    IF i.purpose = None THEN Res(i, FALSE)
    ELSE Res([i EXCEPT !.purpose = None, !.signature = None], TRUE)

set_details(i, details) ==
    LET d == Some(details) IN
    IF i.details = d THEN Res(i, FALSE)
    ELSE Res([i EXCEPT !.details = d, !.signature = None], TRUE)

remove_details(i) ==
    IF i.details = None THEN Res(i, FALSE)
    ELSE Res([i EXCEPT !.details = None, !.signature = None], TRUE)

\* Vec::contains
Contains(vec, x) == \E k \in 1..Len(vec) : vec[k] = x

\* add_consignment_endpoint without the look-up in the list
add_consignment_endpoint_unchecked(i, node) ==
    Res([i EXCEPT !.consignment_endpoints = Append(@, node)], TRUE)

\* pushes the endpoint unless the list holds it; the signature is not touched
add_consignment_endpoint(i, node) ==
    IF Contains(i.consignment_endpoints, node) THEN Res(i, FALSE)
    ELSE Res([i EXCEPT !.consignment_endpoints = Append(@, node)], TRUE)

\* set_network without the comparison with the current value
set_network_unchecked(i, network) ==
    Res([i EXCEPT !.network = Some(network)], TRUE)

\* set_network clearing the signature as the other field mutators do
set_network_clearing(i, network) ==
    IF i.network = Some(network) THEN Res(i, FALSE)
    ELSE Res([i EXCEPT !.network = Some(network), !.signature = None], TRUE)

\* the signature is not touched
set_network(i, network) ==
    IF i.network = Some(network) THEN Res(i, FALSE)
    ELSE Res([i EXCEPT !.network = Some(network)], TRUE)

\* set_signature that keeps a signature the invoice already has
set_signature_if_absent(i, pubkey, signature) ==
    IF IsSome(i.signature) THEN i
    ELSE [i EXCEPT !.signature = Some([pubkey |-> pubkey, sig |-> signature])]

set_signature(i, pubkey, signature) ==
    [i EXCEPT !.signature = Some([pubkey |-> pubkey, sig |-> signature])]

remove_signature(i) == [i EXCEPT !.signature = None]

---------------------------------------------------------------------------
(* Canonical binary encoding: writing                                      *)
(* Layout: version, amount, beneficiary at fixed positions, then one       *)
(* tagged, length-prefixed record per populated optional field in tag      *)
(* order, merged with the retained unknown records.                        *)

\* tags of the registry (network_encoding(tlv = ..) of each Invoice field)
TagSignature == 0
TagAltBeneficiaries == 1
TagAsset == 2
TagExpiry == 3
TagRecurrent == 4
TagMerchant == 5
TagQuantity == 6
TagPurpose == 7
TagCurrencyRequirement == 8
TagDetails == 9
TagConsignmentEndpoints == 10
TagNetwork == 11
Registry == TagSignature..TagNetwork

\* position of x in the sequence s, counted from 0 (an enum's discriminant)
RECURSIVE IndexOf(_, _)
IndexOf(s, x) == IF s = <<>> \/ Head(s) = x THEN 0 ELSE 1 + IndexOf(Tail(s), x)

AmountKinds == <<"Any", "Normal", "Milli">>
RecurrentKinds == <<"NonRecurrent", "Seconds", "Months", "Years">>
EndpointKinds == <<"Storm", "RgbHttpJsonRpc">>
NetworkKinds == <<"Mainnet", "Testnet3", "Regtest", "Signet", "LiquidV1">>

\* a string written without its length
EncString_bare(str) == str

EncString(str) == <<Len(str)>> \o str

EncAmount(a) ==
    CASE a.kind = "Any" -> <<0>>
      [] a.kind = "Normal" -> <<1, a.int>>
      [] OTHER -> <<2, a.int, a.frac>>

EncBeneficiary(b) == <<IndexOf(BeneficiaryKinds, b.kind), b.data>>

EncRecurrent(r) ==
    IF r.kind = "NonRecurrent" THEN <<0>> ELSE <<IndexOf(RecurrentKinds, r.kind), r.n>>

EncQuantity(q) ==
    <<q.min>> \o (IF IsSome(q.max) THEN <<1, q.max[1]>> ELSE <<0>>) \o <<q.default>>

EncCurrency(c) == c.iso4217 \o <<c.coins, c.fractions>> \o EncString(c.price_provider)

EncDetails(d) == <<d.commitment>> \o EncString(d.source)

EncEndpoint(e) == <<IndexOf(EndpointKinds, e.kind)>> \o EncString(e.addr)

RECURSIVE EncBeneficiaries(_)
EncBeneficiaries(v) ==
    IF v = <<>> THEN <<>> ELSE EncBeneficiary(Head(v)) \o EncBeneficiaries(Tail(v))

RECURSIVE EncEndpoints(_)
EncEndpoints(v) ==
    IF v = <<>> THEN <<>> ELSE EncEndpoint(Head(v)) \o EncEndpoints(Tail(v))

\* one record: tag, length of the value, value
Record(tag, value) == <<tag, Len(value)>> \o value

\* the value of the record with this tag, <<>> when the field is not populated
FieldValue(i, tag) ==
    CASE tag = TagSignature ->
            IF IsSome(i.signature)
            THEN Some(<<i.signature[1].pubkey, i.signature[1].sig>>) ELSE None
      [] tag = TagAltBeneficiaries ->
            IF i.alt_beneficiaries # <<>>
            THEN Some(<<Len(i.alt_beneficiaries)>> \o EncBeneficiaries(i.alt_beneficiaries))
            ELSE None
      [] tag = TagAsset -> IF IsSome(i.asset) THEN Some(<<i.asset[1]>>) ELSE None
      [] tag = TagExpiry -> IF IsSome(i.expiry) THEN Some(<<i.expiry[1]>>) ELSE None
      [] tag = TagRecurrent ->
            IF i.recurrent # RecurrentDefault THEN Some(EncRecurrent(i.recurrent)) ELSE None
      [] tag = TagMerchant ->
            IF IsSome(i.merchant) THEN Some(EncString(i.merchant[1])) ELSE None
      [] tag = TagQuantity ->
            IF IsSome(i.quantity) THEN Some(EncQuantity(i.quantity[1])) ELSE None
      [] tag = TagPurpose ->
            IF IsSome(i.purpose) THEN Some(EncString(i.purpose[1])) ELSE None
      [] tag = TagCurrencyRequirement ->
            IF IsSome(i.currency_requirement)
            THEN Some(EncCurrency(i.currency_requirement[1])) ELSE None
      [] tag = TagDetails ->
            IF IsSome(i.details) THEN Some(EncDetails(i.details[1])) ELSE None
      [] tag = TagConsignmentEndpoints ->
            IF i.consignment_endpoints # <<>>
            THEN Some(<<Len(i.consignment_endpoints)>>
                      \o EncEndpoints(i.consignment_endpoints))
            ELSE None
      [] OTHER ->
            IF IsSome(i.network)
            THEN Some(<<IndexOf(NetworkKinds, i.network[1])>>) ELSE None

\* the populated recognized fields as (tag, value) entries, tags from..TagNetwork
RECURSIVE KnownEntries(_, _)
KnownEntries(i, from) ==
    IF from > TagNetwork THEN <<>>
    ELSE LET v == FieldValue(i, from) IN
         (IF IsSome(v) THEN <<[type |-> from, value |-> v[1]]>> ELSE <<>>)
         \o KnownEntries(i, from + 1)

\* the unknown entries dropped on writing
MergeEntries_dropping(known, unknown) == known

\* recognized entries (in tag order) merged with the unknown ones (in their order)
RECURSIVE MergeEntries(_, _)
MergeEntries(known, unknown) ==
    CASE known = <<>> -> unknown
      [] unknown = <<>> -> known
      [] Head(known).type <= Head(unknown).type ->
            <<Head(known)>> \o MergeEntries(Tail(known), unknown)
      [] OTHER -> <<Head(unknown)>> \o MergeEntries(known, Tail(unknown))

RECURSIVE EncEntries(_)
EncEntries(es) ==
    IF es = <<>> THEN <<>>
    ELSE Record(Head(es).type, Head(es).value) \o EncEntries(Tail(es))

\* strict_serialize / strict_encode of an Invoice
Encode(i) ==
    <<i.version>> \o EncAmount(i.amount) \o EncBeneficiary(i.beneficiary)
    \o EncEntries(MergeEntries(KnownEntries(i, TagSignature), i.unknown))

---------------------------------------------------------------------------
(* Canonical binary encoding: reading                                      *)
(* A parser takes a byte sequence and answers [ok, val, rest].             *)

Parsed(v, rest) == [ok |-> TRUE, val |-> <<v>>, rest |-> rest]
Failed == [ok |-> FALSE, val |-> <<>>, rest |-> <<>>]
Drop(s, n) == SubSeq(s, n + 1, Len(s))

DecString(s) ==
    IF Len(s) >= 1 /\ Len(s) >= 1 + s[1]
    THEN Parsed(SubSeq(s, 2, 1 + s[1]), Drop(s, 1 + s[1]))
    ELSE Failed

DecAmount(s) ==
    CASE Len(s) >= 1 /\ s[1] = 0 -> Parsed(Any, Drop(s, 1))
      [] Len(s) >= 2 /\ s[1] = 1 -> Parsed(Normal(s[2]), Drop(s, 2))
      [] Len(s) >= 3 /\ s[1] = 2 -> Parsed(Milli(s[2], s[3]), Drop(s, 3))
      [] OTHER -> Failed

DecBeneficiary(s) ==
    IF Len(s) >= 2 /\ s[1] \in 0..(Len(BeneficiaryKinds) - 1)
    THEN Parsed(Beneficiary(BeneficiaryKinds[s[1] + 1], s[2]), Drop(s, 2))
    ELSE Failed

DecRecurrent(s) ==
    CASE Len(s) >= 1 /\ s[1] = 0 -> Parsed(NonRecurrent, Drop(s, 1))
      [] Len(s) >= 2 /\ s[1] \in 1..3 ->
            Parsed([kind |-> RecurrentKinds[s[1] + 1], n |-> s[2]], Drop(s, 2))
      [] OTHER -> Failed

DecQuantity(s) ==
    CASE Len(s) >= 3 /\ s[2] = 0 -> Parsed(Quantity(s[1], None, s[3]), Drop(s, 3))
      [] Len(s) >= 4 /\ s[2] = 1 -> Parsed(Quantity(s[1], Some(s[3]), s[4]), Drop(s, 4))
      [] OTHER -> Failed

DecCurrency(s) ==
    IF Len(s) < 5 THEN Failed
    ELSE LET url == DecString(Drop(s, 5)) IN
         IF url.ok
         THEN Parsed(CurrencyData(SubSeq(s, 1, 3), s[4], s[5], url.val[1]), url.rest)
         ELSE Failed

DecDetails(s) ==
    IF Len(s) < 1 THEN Failed
    ELSE LET src == DecString(Drop(s, 1)) IN
         IF src.ok THEN Parsed(Details(s[1], src.val[1]), src.rest) ELSE Failed

DecEndpoint(s) ==
    IF Len(s) < 1 \/ s[1] \notin 0..(Len(EndpointKinds) - 1) THEN Failed
    ELSE LET addr == DecString(Drop(s, 1)) IN
         IF addr.ok
         THEN Parsed([kind |-> EndpointKinds[s[1] + 1], addr |-> addr.val[1]], addr.rest)
         ELSE Failed

DecNetwork(s) ==
    IF Len(s) >= 1 /\ s[1] \in 0..(Len(NetworkKinds) - 1)
    THEN Parsed(NetworkKinds[s[1] + 1], Drop(s, 1))
    ELSE Failed

DecSignature(s) ==
    IF Len(s) >= 2 THEN Parsed([pubkey |-> s[1], sig |-> s[2]], Drop(s, 2)) ELSE Failed

DecWord(s) == IF Len(s) >= 1 THEN Parsed(s[1], Drop(s, 1)) ELSE Failed

\* n elements, each read by the parser of `what`
RECURSIVE DecMany(_, _, _, _)
DecMany(what, s, n, acc) ==
    IF n = 0 THEN Parsed(acc, s)
    ELSE LET e == IF what = "Beneficiary" THEN DecBeneficiary(s) ELSE DecEndpoint(s) IN
         IF e.ok THEN DecMany(what, e.rest, n - 1, Append(acc, e.val[1])) ELSE Failed

DecVec(what, s) == IF Len(s) >= 1 THEN DecMany(what, Drop(s, 1), s[1], <<>>) ELSE Failed

\* the value of a recognized record, which must use up the record's bytes
DecField(tag, value) ==
    LET p == CASE tag = TagSignature -> DecSignature(value)
               [] tag = TagAltBeneficiaries -> DecVec("Beneficiary", value)
               [] tag = TagAsset -> DecWord(value)
               [] tag = TagExpiry -> DecWord(value)
               [] tag = TagRecurrent -> DecRecurrent(value)
               [] tag = TagMerchant -> DecString(value)
               [] tag = TagQuantity -> DecQuantity(value)
               [] tag = TagPurpose -> DecString(value)
               [] tag = TagCurrencyRequirement -> DecCurrency(value)
               [] tag = TagDetails -> DecDetails(value)
               [] tag = TagConsignmentEndpoints -> DecVec("Endpoint", value)
               [] OTHER -> DecNetwork(value)
    IN IF p.ok /\ p.rest = <<>> THEN p ELSE Failed

\* the invoice i with the field of a recognized tag set to the decoded value v
WithField(i, tag, v) ==
    CASE tag = TagSignature -> [i EXCEPT !.signature = Some(v)]
      [] tag = TagAltBeneficiaries -> [i EXCEPT !.alt_beneficiaries = v]
      [] tag = TagAsset -> [i EXCEPT !.asset = Some(v)]
      [] tag = TagExpiry -> [i EXCEPT !.expiry = Some(v)]
      [] tag = TagRecurrent -> [i EXCEPT !.recurrent = v]
      [] tag = TagMerchant -> [i EXCEPT !.merchant = Some(v)]
      [] tag = TagQuantity -> [i EXCEPT !.quantity = Some(v)]
      [] tag = TagPurpose -> [i EXCEPT !.purpose = Some(v)]
      [] tag = TagCurrencyRequirement -> [i EXCEPT !.currency_requirement = Some(v)]
      [] tag = TagDetails -> [i EXCEPT !.details = Some(v)]
      [] tag = TagConsignmentEndpoints -> [i EXCEPT !.consignment_endpoints = v]
      [] OTHER -> [i EXCEPT !.network = Some(v)]

\* the records after the fixed part: a recognized tag fills its field, any
\* other tag is kept in the unknown stream as (type, value)
RECURSIVE DecRecords(_, _)
DecRecords(s, i) ==
    IF s = <<>> THEN Parsed(i, <<>>)
    ELSE IF Len(s) < 2 \/ Len(s) < 2 + s[2] THEN Failed
    ELSE LET tag == s[1]
             value == SubSeq(s, 3, 2 + s[2])
             rest == Drop(s, 2 + s[2])
         IN IF tag \in Registry
            THEN LET f == DecField(tag, value) IN
                 IF f.ok THEN DecRecords(rest, WithField(i, tag, f.val[1])) ELSE Failed
            ELSE DecRecords(rest,
                     [i EXCEPT !.unknown = Append(@, [type |-> tag, value |-> value])])

\* strict_deserialize / strict_decode of an Invoice
Decode(bytes) ==
    IF Len(bytes) < 1 THEN Failed
    ELSE LET a == DecAmount(Drop(bytes, 1)) IN
         IF ~a.ok THEN Failed
         ELSE LET b == DecBeneficiary(a.rest) IN
              IF ~b.ok THEN Failed
              ELSE DecRecords(b.rest,
                       [new(b.val[1], None, None) EXCEPT
                            !.version = bytes[1], !.amount = a.val[1]])

---------------------------------------------------------------------------
(* Text encoding: the compressed canonical bytes in the bech32 alphabet,   *)
(* behind the prefix "i" and the separator "1", closed by a checksum.      *)
(* Text is the sequence of its character codes.                            *)

\* const HRP: "i"
Hrp == <<105>>
Separator == <<49>>
\* the alphabet "qpzry9x8gf2tvdw0s3jn54khce6mua7l": the character of each 5-bit value
Charset ==
    <<113, 112, 122, 114, 121, 57, 120, 56, 103, 102, 50, 116, 118, 100, 119, 48,
      115, 51, 106, 110, 53, 52, 107, 104, 99, 101, 54, 109, 117, 97, 55, 108>>
Radix == Len(Charset)

\* run-length compression: (count, byte) pairs
RECURSIVE RunLength(_, _)
RunLength(s, b) == IF s # <<>> /\ Head(s) = b THEN 1 + RunLength(Tail(s), b) ELSE 0

RECURSIVE Deflate(_)
Deflate(bytes) ==
    IF bytes = <<>> THEN <<>>
    ELSE LET n == RunLength(bytes, Head(bytes)) IN
         <<n, Head(bytes)>> \o Deflate(SubSeq(bytes, n + 1, Len(bytes)))

RECURSIVE Inflate(_)
Inflate(pairs) ==
    IF Len(pairs) < 2 THEN <<>>
    ELSE [k \in 1..pairs[1] |-> pairs[2]] \o Inflate(SubSeq(pairs, 3, Len(pairs)))

\* each byte as two 5-bit values, high one first
RECURSIVE ToBase32(_)
ToBase32(bytes) ==
    IF bytes = <<>> THEN <<>>
    ELSE <<Head(bytes) \div Radix, Head(bytes) % Radix>> \o ToBase32(Tail(bytes))

RECURSIVE FromBase32(_)
FromBase32(vals) ==
    IF Len(vals) < 2 THEN <<>>
    ELSE <<vals[1] * Radix + vals[2]>> \o FromBase32(SubSeq(vals, 3, Len(vals)))

RECURSIVE Sum(_)
Sum(s) == IF s = <<>> THEN 0 ELSE Head(s) + Sum(Tail(s))

Checksum(vals) == (Sum(Hrp) + Sum(vals)) % Radix

Chars(vals) == [k \in 1..Len(vals) |-> Charset[vals[k] + 1]]

\* Invoice::to_bech32_string, which is also Display and to_string
to_bech32_string(i) ==
    LET vals == ToBase32(Deflate(Encode(i))) IN
    Hrp \o Separator \o Chars(vals) \o Chars(<<Checksum(vals)>>)

to_string(i) == to_bech32_string(i)

\* Invoice::from_bech32_str: prefix, alphabet and checksum are verified, then
\* the bytes are decompressed and decoded
from_bech32_str(str) ==
    LET n == Len(Hrp) + Len(Separator)
        body == SubSeq(str, n + 1, Len(str))
    IN IF Len(str) < n + 1 \/ SubSeq(str, 1, n) # Hrp \o Separator THEN Failed
       ELSE IF \E k \in 1..Len(body) : ~\E v \in 1..Radix : Charset[v] = body[k]
       THEN Failed
       ELSE LET all == [k \in 1..Len(body) |-> IndexOf(Charset, body[k])]
                vals == SubSeq(all, 1, Len(all) - 1)
            IN IF all[Len(all)] # Checksum(vals) \/ Len(vals) % 2 # 0 THEN Failed
               ELSE Decode(Inflate(FromBase32(vals)))

\* impl FromStr for Invoice
from_str(str) == from_bech32_str(str)

---------------------------------------------------------------------------
(* Ordering *)

\* str::cmp: lexicographic order of the character codes
RECURSIVE StrCmp(_, _)
StrCmp(a, b) ==
    CASE a = <<>> /\ b = <<>> -> "Equal"
      [] a = <<>> -> "Less"
      [] b = <<>> -> "Greater"
      [] Head(a) < Head(b) -> "Less"
      [] Head(a) > Head(b) -> "Greater"
      [] OTHER -> StrCmp(Tail(a), Tail(b))

\* an order on the amounts alone, not the order of the source
cmp_by_amount(self, oth) ==
    LET a == IndexOf(AmountKinds, self.amount.kind)
        b == IndexOf(AmountKinds, oth.amount.kind)
    IN  IF a < b THEN "Less" ELSE IF a > b THEN "Greater" ELSE "Equal"

\* impl Ord for Invoice
cmp(self, oth) == StrCmp(to_string(self), to_string(oth))

\* impl PartialOrd for Invoice
partial_cmp(self, oth) == Some(cmp(self, oth))

---------------------------------------------------------------------------
(* Signature hash *)

\* MerkleNode::hash: a digest of the bytes (a polynomial hash here: digests
\* that differ in the model come from byte sequences that differ)
RECURSIVE Digest(_, _)
Digest(bytes, h) ==
    IF bytes = <<>> THEN h
    ELSE Digest(Tail(bytes), (h * 131 + Head(bytes) + 1) % 1000003)

\* the invoice is serialized as it stands, signature record included
signature_hash(self) == Digest(Encode(self), 7)

---------------------------------------------------------------------------
(* Asset classification *)

\* the chains of lnpbp::chain::Chain: the five a Network can be made from and
\* "Other" for the rest (the `_` arm of TryFrom<Chain> for Network)
Chains == <<"Mainnet", "Testnet3", "Regtest", "Signet", "LiquidV1", "Other">>
Chain == {Chains[k] : k \in 1..Len(Chains)}

\* Chain::native_asset: one asset id per chain, no two chains sharing one
native_asset(chain) == 1 + IndexOf(Chains, chain)

\* asset ids that are no chain's native asset
ContractAssets == {100 + k : k \in 1..MaxVal}
AssetIds == {native_asset(c) : c \in Chain} \cup ContractAssets

\* the chains classify_asset and rgb_asset look an asset id up in, in order
NativeChains == <<"Mainnet", "Signet", "LiquidV1", "Testnet3">>

\* enum AssetClass { Native, Rgb(ContractId), InvalidNativeChain }
Native == [kind |-> "Native", id |-> 0]
InvalidNativeChain == [kind |-> "InvalidNativeChain", id |-> 0]
Rgb(id) == [kind |-> "Rgb", id |-> id]

\* .iter().map(Chain::native_asset).find(|id| id == &asset_id).is_some()
FindNative(chains, asset_id) ==
    \E k \in 1..Len(chains) : native_asset(chains[k]) = asset_id

\* a classification that takes an absent asset for the native asset of
\* whichever chain is given, not the classification of the source
classify_asset_any_native(self, chain) ==
    CASE self.asset = None /\ IsSome(chain) -> Native
      [] self.asset = None -> InvalidNativeChain
      [] IsSome(chain) /\ self.asset[1] = native_asset(chain[1]) -> Native
      [] FindNative(NativeChains, self.asset[1]) -> InvalidNativeChain
      [] OTHER -> Rgb(self.asset[1])

\* Invoice::classify_asset: the match arms in order
classify_asset(self, chain) ==
    CASE self.asset = None /\ chain = Some("Mainnet") -> Native
      [] self.asset = None -> InvalidNativeChain
      [] IsSome(chain) /\ self.asset[1] = native_asset(chain[1]) -> Native
      [] FindNative(NativeChains, self.asset[1]) -> InvalidNativeChain
      [] OTHER -> Rgb(self.asset[1])

\* the chains rgb_asset looks an asset id up in, in order
RgbChains == <<"Mainnet", "Signet", "LiquidV1", "Testnet3">>

\* ContractId::from_inner(Hash::from_inner(asset_id.into_inner())): the
\* contract id has the bytes of the asset id
ContractId(asset_id) == asset_id

\* rgb_asset that takes every present asset for a contract
rgb_asset_any(self) ==
    IF self.asset = None THEN None ELSE Some(ContractId(self.asset[1]))

\* Invoice::rgb_asset
rgb_asset(self) ==
    IF self.asset = None THEN None
    ELSE IF \A k \in 1..Len(RgbChains) :
                native_asset(RgbChains[k]) # self.asset[1]
         THEN Some(ContractId(self.asset[1]))
         ELSE None

\* Invoice::is_rgb
is_rgb(self) == rgb_asset(self) = None

---------------------------------------------------------------------------
(* Beneficiaries enumeration *)

\* Invoice::beneficiaries
beneficiaries(self) == [index |-> 0]

\* slice::get
Get(vec, k) == IF k >= 0 /\ k < Len(vec) THEN Some(vec[k + 1]) ELSE None

\* an enumeration that skips the first alternate, not that of the source
next_skipping(it, invoice) ==
    LET index == it.index + 1 IN
    [iter |-> [index |-> index],
     item |-> IF index = 1 THEN Some(invoice.beneficiary)
              ELSE Get(invoice.alt_beneficiaries, index - 1)]

\* BeneficiariesIter::next: the iterator after the call and the item returned
next(it, invoice) ==
    LET index == it.index + 1 IN
    [iter |-> [index |-> index],
     item |-> IF index = 1 THEN Some(invoice.beneficiary)
              ELSE Get(invoice.alt_beneficiaries, index - 2)]

---------------------------------------------------------------------------
(* Building an invoice: one action per mutator *)

\* the variables no mutator touches
\* the variables of the parsers and of the asset accessors
aside == <<input, parsed, atomic, rgb>>

idle == <<other, ord, iter, out, target, cls, wire, text, hash, calls, aside>>

Idle ==
    /\ other = <<>> /\ ord = <<>> /\ iter = <<>> /\ out = <<>>
    /\ target = <<>> /\ cls = <<>> /\ wire = <<>> /\ text = <<>> /\ hash = <<>>
    /\ calls = 0
    /\ input = <<>> /\ parsed = <<>> /\ atomic = <<>> /\ rgb = <<>>

\* a call of a bool-returning mutator, whose outcome is r
Call(op, arg, r) ==
    /\ inv' = r.inv
    /\ last' = [op |-> op, arg |-> arg, ret |-> Ret(r.ret)]
    /\ UNCHANGED idle

\* a call of a mutator that returns nothing and leaves the invoice i
CallUnit(op, arg, i) ==
    /\ inv' = i
    /\ last' = [op |-> op, arg |-> arg, ret |-> RetUnit]
    /\ UNCHANGED idle

SetAmount == \E a \in Amounts : Call("set_amount", <<a>>, set_amount(inv, a))
SetRecurrent ==
    \E r \in Recurrents : Call("set_recurrent", <<r>>, set_recurrent(inv, r))
SetExpiry == \E e \in Expiries : Call("set_expiry", <<e>>, set_expiry(inv, e))
SetNoExpiry == Call("set_no_expiry", <<>>, set_no_expiry(inv))
SetQuantity ==
    \E q \in Quantities : Call("set_quantity", <<q>>, set_quantity(inv, q))
RemoveQuantity == Call("remove_quantity", <<>>, remove_quantity(inv))
SetCurrencyRequirement ==
    \E c \in Currencies :
        Call("set_currency_requirement", <<c>>, set_currency_requirement(inv, c))
RemoveCurrencyRequirement ==
    Call("remove_currency_requirement", <<>>, remove_currency_requirement(inv))
SetMerchant ==
    \E m \in Strings : Call("set_merchant", <<m>>, set_merchant(inv, m))
RemoveMerchant == Call("remove_merchant", <<>>, remove_merchant(inv))
SetPurpose == \E p \in Strings : Call("set_purpose", <<p>>, set_purpose(inv, p))
RemovePurpose == Call("remove_purpose", <<>>, remove_purpose(inv))
SetDetails ==
    \E d \in DetailsValues : Call("set_details", <<d>>, set_details(inv, d))
RemoveDetails == Call("remove_details", <<>>, remove_details(inv))
AddConsignmentEndpoint ==
    \E e \in Endpoints :
        Call("add_consignment_endpoint", <<e>>, add_consignment_endpoint(inv, e))
SetNetwork ==
    \E n \in NetworkArgs : Call("set_network", <<n>>, set_network(inv, n))
SetSignature ==
    \E s \in Signatures :
        CallUnit("set_signature", <<s>>, set_signature(inv, s.pubkey, s.sig))
RemoveSignature == CallUnit("remove_signature", <<>>, remove_signature(inv))

\* the invoices the callers of the model construct
Constructed ==
    {new(b, a, None) : b \in {Beneficiary("Address", 1)}, a \in {None, Some(MaxVal)}}

Fresh == last = [op |-> "new", arg |-> <<>>, ret |-> RetUnit]

Init == inv \in Constructed /\ Fresh /\ Idle

Next ==
    \/ SetAmount
    \/ SetRecurrent
    \/ SetExpiry
    \/ SetNoExpiry
    \/ SetQuantity
    \/ RemoveQuantity
    \/ SetCurrencyRequirement
    \/ RemoveCurrencyRequirement
    \/ SetMerchant
    \/ RemoveMerchant
    \/ SetPurpose
    \/ RemovePurpose
    \/ SetDetails
    \/ RemoveDetails
    \/ AddConsignmentEndpoint
    \/ SetNetwork
    \/ SetSignature
    \/ RemoveSignature

Spec == Init /\ [][Next]_vars

---------------------------------------------------------------------------
(* Signing: signature_hash on an invoice under construction *)

SignatureHash ==
    /\ hash' = <<[of |-> inv, digest |-> signature_hash(inv)]>>
    /\ UNCHANGED <<inv, last, other, ord, iter, out, target, cls, wire, text, calls, aside>>

NextHash ==
    \/ SetAmount
    \/ SetNetwork
    \/ SetSignature
    \/ RemoveSignature
    \/ SignatureHash

SpecHash == Init /\ [][NextHash]_vars

---------------------------------------------------------------------------
(* Ordering: an invoice compared with an earlier clone of itself *)

Clone ==
    /\ other' = <<inv>>
    /\ UNCHANGED <<inv, last, ord, iter, out, target, cls, wire, text, hash, calls, aside>>

Cmp ==
    /\ other # <<>>
    /\ ord' = <<[op |-> "cmp", self |-> inv, oth |-> other[1],
                 val |-> Some(cmp(inv, other[1]))]>>
    /\ UNCHANGED <<inv, last, other, iter, out, target, cls, wire, text, hash, calls, aside>>

PartialCmp ==
    /\ other # <<>>
    /\ ord' = <<[op |-> "partial_cmp", self |-> inv, oth |-> other[1],
                 val |-> partial_cmp(inv, other[1])]>>
    /\ UNCHANGED <<inv, last, other, iter, out, target, cls, wire, text, hash, calls, aside>>

NextOrd ==
    \/ SetAmount
    \/ SetMerchant
    \/ Clone
    \/ Cmp
    \/ PartialCmp

SpecOrd == Init /\ [][NextOrd]_vars

---------------------------------------------------------------------------
(* Classification of a constructed invoice's asset *)

Option(S) == {None} \cup {Some(x) : x \in S}

InitClassify ==
    /\ inv \in {new(b, None, a) : b \in Beneficiaries, a \in Option(AssetIds)}
    /\ Fresh /\ Idle

\* the variables is_rgb and rgb_asset leave alone, their own aside
unasked ==
    <<inv, last, other, ord, iter, out, target, cls, wire, text, hash, calls>>

ClassifyAsset ==
    \E chain \in Option(Chain) :
        /\ target' = chain
        /\ cls' = <<classify_asset(inv, chain)>>
        /\ UNCHANGED <<inv, last, other, ord, iter, out, wire, text, hash, calls, aside>>

IsRgb ==
    /\ rgb' = <<[op |-> "is_rgb", flag |-> is_rgb(inv), id |-> None]>>
    /\ UNCHANGED <<unasked, input, parsed, atomic>>

RgbAsset ==
    /\ rgb' = <<[op |-> "rgb_asset", flag |-> FALSE, id |-> rgb_asset(inv)]>>
    /\ UNCHANGED <<unasked, input, parsed, atomic>>

NextClassify == ClassifyAsset \/ IsRgb \/ RgbAsset

SpecClassify == InitClassify /\ [][NextClassify]_vars

---------------------------------------------------------------------------
(* Enumerating the beneficiaries of an invoice that carries alternates *)

\* sequences over S of length at most n
RECURSIVE SeqsUpTo(_, _)
SeqsUpTo(S, n) ==
    IF n = 0 THEN {<<>>}
    ELSE LET shorter == SeqsUpTo(S, n - 1) IN
         shorter \cup {Append(q, x) : q \in shorter, x \in S}

\* invoices as read from the wire: alternates are set by decoding only
InitIter ==
    /\ inv \in {[new(b, None, None) EXCEPT !.alt_beneficiaries = alts] :
                    b \in Beneficiaries, alts \in SeqsUpTo(Beneficiaries, MaxAlts)}
    /\ Fresh /\ Idle

GetBeneficiaries ==
    /\ iter' = <<beneficiaries(inv)>>
    /\ out' = <<>>
    /\ UNCHANGED <<inv, last, other, ord, target, cls, wire, text, hash, calls, aside>>

IterNext ==
    /\ iter # <<>>
    /\ iter[1].index < 1 + Len(inv.alt_beneficiaries) + MaxPastEnd
    /\ LET r == next(iter[1], inv) IN
        /\ iter' = <<r.iter>>
        /\ out' = Append(out, r.item)
    /\ UNCHANGED <<inv, last, other, ord, target, cls, wire, text, hash, calls, aside>>

NextIter == GetBeneficiaries \/ IterNext

SpecIter == InitIter /\ [][NextIter]_vars

---------------------------------------------------------------------------
(* The codecs at work: an invoice is built, then written and read back;    *)
(* or bytes written by another implementation are read and written again.  *)

\* how many records follow the fixed part of a received byte stream
MaxRecords == 3
\* how many mutator calls build an invoice before it is written
MaxCalls == 3

\* the result of every call a builder can make on the invoice i
Mutations(i) ==
    {set_amount(i, a).inv : a \in Amounts \cup {Milli(0, 5)}}
    \cup {set_recurrent(i, r).inv : r \in Recurrents}
    \cup {set_expiry(i, e).inv : e \in Expiries}
    \cup {set_quantity(i, q).inv : q \in Quantities}
    \cup {set_currency_requirement(i, c).inv : c \in Currencies}
    \cup {set_merchant(i, m).inv : m \in Strings}
    \cup {set_purpose(i, m).inv : m \in Strings}
    \cup {set_details(i, d).inv : d \in DetailsValues}
    \cup {add_consignment_endpoint(i, e).inv :
                e \in Endpoints \cup {RgbHttpJsonRpc(<<2>>)}}
    \cup {set_network(i, n).inv : n \in NetworkArgs}
    \cup {set_signature(i, g.pubkey, g.sig) : g \in Signatures}
    \cup {set_no_expiry(i).inv, remove_quantity(i).inv,
          remove_currency_requirement(i).inv, remove_merchant(i).inv,
          remove_purpose(i).inv, remove_details(i).inv, remove_signature(i)}

\* any one mutator call, while nothing has been written or read yet
Mutate ==
    /\ last.op = "new" /\ wire = <<>> /\ text = <<>>
    /\ calls < MaxCalls
    /\ inv' \in Mutations(inv)
    /\ calls' = calls + 1
    /\ UNCHANGED <<last, other, ord, iter, out, target, cls, wire, text, hash, aside>>

StrictSerialize ==
    /\ text = <<>>
    /\ wire' = Encode(inv)
    /\ last' = [op |-> "strict_serialize", arg |-> <<>>, ret |-> RetUnit]
    /\ UNCHANGED <<inv, other, ord, iter, out, target, cls, text, hash, calls, aside>>

\* a failed read leaves no invoice behind: the one held is kept
StrictDeserialize ==
    /\ wire # <<>>
    /\ LET d == Decode(wire) IN
        /\ inv' = IF d.ok THEN d.val[1] ELSE inv
        /\ last' = [op |-> "strict_deserialize", arg |-> <<>>, ret |-> Ret(d.ok)]
    /\ UNCHANGED <<other, ord, iter, out, target, cls, wire, text, hash, calls, aside>>

ToString ==
    /\ wire = <<>>
    /\ text' = to_string(inv)
    /\ last' = [op |-> "to_string", arg |-> <<>>, ret |-> RetUnit]
    /\ UNCHANGED <<inv, other, ord, iter, out, target, cls, wire, hash, calls, aside>>

FromStr ==
    /\ text # <<>>
    /\ LET d == from_str(text) IN
        /\ inv' = IF d.ok THEN d.val[1] ELSE inv
        /\ last' = [op |-> "from_str", arg |-> <<>>, ret |-> Ret(d.ok)]
    /\ UNCHANGED <<other, ord, iter, out, target, cls, wire, text, hash, calls, aside>>

\* records another implementation may write: two this one recognizes
\* (expiry, merchant) and two with tags outside the registry
ForeignRecords ==
    {Record(TagExpiry, <<1>>), Record(TagMerchant, EncString(<<109>>)),
     Record(TagNetwork + 1, <<9>>), Record(TagNetwork + 2, <<>>)}

RECURSIVE Concat(_)
Concat(ss) == IF ss = <<>> THEN <<>> ELSE Head(ss) \o Concat(Tail(ss))

\* byte streams handed to the reader: a fixed part, then up to MaxRecords
\* different records in any order
WireInputs ==
    {<<0>> \o EncAmount(Any) \o EncBeneficiary(Beneficiary("Address", 1)) \o Concat(rs) :
        rs \in {q \in SeqsUpTo(ForeignRecords, MaxRecords) :
                    \A j, k \in 1..Len(q) : j # k => q[j] # q[k]}}

InitCodec ==
    /\ inv = new(Beneficiary("Address", 1), None, None)
    /\ Fresh
    /\ other = <<>> /\ ord = <<>> /\ iter = <<>> /\ out = <<>>
    /\ target = <<>> /\ cls = <<>> /\ text = <<>> /\ hash = <<>> /\ calls = 0
    /\ input = <<>> /\ parsed = <<>> /\ atomic = <<>> /\ rgb = <<>>
    /\ wire \in {<<>>} \cup WireInputs

NextCodec ==
    \/ Mutate
    \/ StrictSerialize
    \/ StrictDeserialize
    \/ ToString
    \/ FromStr

SpecCodec == InitCodec /\ [][NextCodec]_vars

---------------------------------------------------------------------------
(* Calls as values, for the properties of the mutators *)

\* the set_X mutators (add_consignment_endpoint with them) and their arguments
SetterCalls ==
    {[op |-> "set_amount", arg |-> <<a>>] : a \in Amounts}
    \cup {[op |-> "set_recurrent", arg |-> <<r>>] : r \in Recurrents}
    \cup {[op |-> "set_expiry", arg |-> <<e>>] : e \in Expiries}
    \cup {[op |-> "set_quantity", arg |-> <<q>>] : q \in Quantities}
    \cup {[op |-> "set_currency_requirement", arg |-> <<c>>] : c \in Currencies}
    \cup {[op |-> "set_merchant", arg |-> <<m>>] : m \in Strings}
    \cup {[op |-> "set_purpose", arg |-> <<m>>] : m \in Strings}
    \cup {[op |-> "set_details", arg |-> <<d>>] : d \in DetailsValues}
    \cup {[op |-> "set_network", arg |-> <<n>>] : n \in NetworkArgs}
    \cup {[op |-> "add_consignment_endpoint", arg |-> <<e>>] : e \in Endpoints}

\* the remove_X mutators and set_no_expiry
RemoverCalls ==
    {[op |-> o, arg |-> <<>>] :
        o \in {"set_no_expiry", "remove_quantity", "remove_currency_requirement",
               "remove_merchant", "remove_purpose", "remove_details"}}

SetterOps == {c.op : c \in SetterCalls}
RemoverOps == {c.op : c \in RemoverCalls}
MutatorOps == SetterOps \cup RemoverOps

\* the call c made on the invoice i
Apply(c, i) ==
    CASE c.op = "set_amount" -> set_amount(i, c.arg[1])
      [] c.op = "set_recurrent" -> set_recurrent(i, c.arg[1])
      [] c.op = "set_expiry" -> set_expiry(i, c.arg[1])
      [] c.op = "set_no_expiry" -> set_no_expiry(i)
      [] c.op = "set_quantity" -> set_quantity(i, c.arg[1])
      [] c.op = "remove_quantity" -> remove_quantity(i)
      [] c.op = "set_currency_requirement" -> set_currency_requirement(i, c.arg[1])
      [] c.op = "remove_currency_requirement" -> remove_currency_requirement(i)
      [] c.op = "set_merchant" -> set_merchant(i, c.arg[1])
      [] c.op = "remove_merchant" -> remove_merchant(i)
      [] c.op = "set_purpose" -> set_purpose(i, c.arg[1])
      [] c.op = "remove_purpose" -> remove_purpose(i)
      [] c.op = "set_details" -> set_details(i, c.arg[1])
      [] c.op = "remove_details" -> remove_details(i)
      [] c.op = "add_consignment_endpoint" -> add_consignment_endpoint(i, c.arg[1])
      [] OTHER -> set_network(i, c.arg[1])

\* the field of the invoice i that the mutator op is about
Field(op, i) ==
    CASE op = "set_amount" -> i.amount
      [] op = "set_recurrent" -> i.recurrent
      [] op \in {"set_expiry", "set_no_expiry"} -> i.expiry
      [] op \in {"set_quantity", "remove_quantity"} -> i.quantity
      [] op \in {"set_currency_requirement", "remove_currency_requirement"} ->
            i.currency_requirement
      [] op \in {"set_merchant", "remove_merchant"} -> i.merchant
      [] op \in {"set_purpose", "remove_purpose"} -> i.purpose
      [] op \in {"set_details", "remove_details"} -> i.details
      [] op = "add_consignment_endpoint" -> i.consignment_endpoints
      [] OTHER -> i.network

\* whether the field of i already has what the call c asks for: the value
\* given, an empty string counting as absent; for a remover, absence; for
\* add_consignment_endpoint, the endpoint being in the list
Holds(c, i) ==
    CASE c.op \in RemoverOps -> Field(c.op, i) = None
      [] c.op \in {"set_amount", "set_recurrent"} -> Field(c.op, i) = c.arg[1]
      [] c.op \in {"set_merchant", "set_purpose"} ->
            Field(c.op, i) = (IF c.arg[1] = <<>> THEN None ELSE Some(c.arg[1]))
      [] c.op = "add_consignment_endpoint" ->
            \E k \in 1..Len(i.consignment_endpoints) :
                i.consignment_endpoints[k] = c.arg[1]
      [] OTHER -> Field(c.op, i) = Some(c.arg[1])

LastCall == [op |-> last.op, arg |-> last.arg]

---------------------------------------------------------------------------
(* Claims on the mutators, checked under Spec *)

\* the mutators of the fields that the canonical encoding, hence
\* signature_hash, covers
EncodedFieldOps == MutatorOps

\* C1: when a mutator of a field that is part of the canonical encoding has
\* just changed the field (returned true), the invoice carries no signature:
\* a signature that is present was set after the last change of any encoded
\* field.
C1_SignatureInvalidated ==
    (last.op \in EncodedFieldOps /\ last.ret = RetTrue) => inv.signature = None

\* C3 as stated: a set_X(v) just called returned true, and the same call made
\* again returns false; a remover called on an absent field returns false.
C3_TrueThenFalse ==
    /\ last.op \in SetterOps =>
            last.ret = RetTrue /\ Apply(LastCall, inv).ret = FALSE
    /\ \A c \in RemoverCalls : Field(c.op, inv) = None => Apply(c, inv).ret = FALSE

\* C3 as amended: after set_X(v), whatever it returned, the same call made
\* again returns false; from any state the first of two calls returns true
\* unless the field already has the value (then it returns false as well) and
\* the second returns false; a remover called on an absent field returns
\* false.
C3_SecondCallFalse ==
    /\ last.op \in SetterOps => Apply(LastCall, inv).ret = FALSE
    /\ \A c \in SetterCalls :
            LET first == Apply(c, inv) IN
            /\ first.ret = ~Holds(c, inv)
            /\ Apply(c, first.inv).ret = FALSE
    /\ \A c \in RemoverCalls : Field(c.op, inv) = None => Apply(c, inv).ret = FALSE

\* a set_X(v) has returned true, a second set_X(v) has then returned false
C3_Witness ==
    /\ last.op = "set_expiry" /\ last.ret = RetFalse
    /\ inv.expiry = Some(last.arg[1])
    /\ inv.signature = None /\ inv.merchant # None

\* C4: a mutator call returns false exactly when the invoice already had what
\* was asked for (the normalized argument equals the field), and then the
\* whole invoice, signature included, is as before; it returns true exactly
\* when the value of its field changed.
C4_FalseIffUnchanged ==
    [][last'.op \in MutatorOps =>
            LET c == [op |-> last'.op, arg |-> last'.arg] IN
            /\ (last'.ret = RetFalse) = Holds(c, inv)
            /\ last'.ret = RetFalse => inv' = inv
            /\ (last'.ret = RetTrue) = (Field(c.op, inv') # Field(c.op, inv))]_vars

\* a mutator has returned false on a signed invoice, which is still signed
C4_Witness ==
    /\ last.op = "set_merchant" /\ last.arg = <<<<>>>> /\ last.ret = RetFalse
    /\ IsSome(inv.signature)

---------------------------------------------------------------------------
(* Claim on signature_hash, checked under SpecHash *)

\* C2: signature_hash does not depend on the signature field: an invoice that
\* differs from the one last hashed in its signature only (a signature set,
\* replaced or removed since) has the digest that call returned.
C2_HashIgnoresSignature ==
    (hash # <<>> /\ remove_signature(hash[1].of) = remove_signature(inv))
        => signature_hash(inv) = hash[1].digest

---------------------------------------------------------------------------
(* Claims on the codecs, checked under SpecCodec *)

\* the bytes after the fixed part (version, amount, beneficiary) of a stream
RecordsOf(bytes) == DecBeneficiary(DecAmount(Drop(bytes, 1)).rest).rest

\* the records of a well-formed record region as (type, value) entries
RECURSIVE Entries(_)
Entries(s) ==
    IF Len(s) < 2 THEN <<>>
    ELSE <<[type |-> s[1], value |-> SubSeq(s, 3, 2 + s[2])]>>
         \o Entries(Drop(s, 2 + s[2]))

\* the entries of es with a tag outside the registry, in order
RECURSIVE Unrecognized(_)
Unrecognized(es) ==
    IF es = <<>> THEN <<>>
    ELSE (IF Head(es).type \in Registry THEN <<>> ELSE <<Head(es)>>)
         \o Unrecognized(Tail(es))

\* the order in which an encoder writes records: the recognized ones by
\* ascending tag, no unrecognized one before a recognized one
WriterOrder(es) ==
    \A j, k \in 1..Len(es) :
        (j < k /\ es[k].type \in Registry) =>
            es[j].type \in Registry /\ es[j].type < es[k].type

\* unrecognized records among recognized ones
Mixed(es) ==
    /\ \E k \in 1..Len(es) : es[k].type \in Registry
    /\ \E k \in 1..Len(es) : es[k].type \notin Registry

Retained ==
    last'.op = "strict_deserialize" =>
        /\ last'.ret = RetTrue
        /\ inv'.unknown = Unrecognized(Entries(RecordsOf(wire)))

---------------------------------------------------------------------------
(* Claims on classify_asset, checked under SpecClassify *)

\* the class of an invoice with no asset, or with the native asset of
\* Mainnet, under the target last classified for
MainnetOnly == IF target = Some("Mainnet") THEN Native ELSE InvalidNativeChain

\* the first two rows of the table: no asset, and the Mainnet native asset
MainnetRows ==
    /\ inv.asset = None => cls[1] = MainnetOnly
    /\ inv.asset = Some(native_asset("Mainnet")) => cls[1] = MainnetOnly

\* the asset is present and is the native asset of no chain classify_asset
\* looks it up in
OutsideLookup == IsSome(inv.asset) /\ ~FindNative(NativeChains, inv.asset[1])

\* C7 as stated: no asset gives Native for target Mainnet and
\* InvalidNativeChain for any other or absent target; the Mainnet native
\* asset gives the same; an asset id that is the native asset of no chain in
\* the lookup list gives Rgb(id) for every target.
C7_Table ==
    cls # <<>> =>
        /\ MainnetRows
        /\ OutsideLookup => cls[1] = Rgb(inv.asset[1])

\* C7 as amended: the first two rows as stated; an asset id that is the
\* native asset of no chain in the lookup list gives Native when it is the
\* native asset of the target chain, and Rgb(id) for every other target and
\* for an absent one.
C7_TableTargetFirst ==
    cls # <<>> =>
        /\ MainnetRows
        /\ OutsideLookup =>
            cls[1] = IF IsSome(target) /\ native_asset(target[1]) = inv.asset[1]
                     THEN Native ELSE Rgb(inv.asset[1])

\* an invoice for the native asset of Regtest has been classified for Regtest
C7_Witness ==
    /\ cls = <<Native>>
    /\ inv.asset = Some(native_asset("Regtest"))
    /\ target = Some("Regtest")

\* C8: an invoice whose asset is the native asset of a chain a Network can be
\* made from, classified for an absent target or for a target with another
\* native asset, is InvalidNativeChain.
C8_ChainConfusionRejected ==
    cls # <<>> =>
        \A c \in Network :
            (/\ inv.asset = Some(native_asset(c))
             /\ (target = None \/ native_asset(target[1]) # native_asset(c)))
                => cls[1] = InvalidNativeChain

---------------------------------------------------------------------------
(* Claim on beneficiaries(), checked under SpecIter *)

\* the k-th item (from 1) of a full enumeration: the primary beneficiary,
\* the alternates in stored order, None from then on
Expected(k) ==
    IF k = 1 THEN Some(inv.beneficiary)
    ELSE IF k <= 1 + Len(inv.alt_beneficiaries)
         THEN Some(inv.alt_beneficiaries[k - 1])
         ELSE None

\* the items drawn since the last call of beneficiaries() are the first of
\* a full enumeration, and the next call of next returns the one after them
DrawnInOrder ==
    iter # <<>> =>
        /\ Len(out) = iter[1].index
        /\ \A k \in 1..Len(out) : out[k] = Expected(k)
        /\ next(iter[1], inv).item = Expected(Len(out) + 1)
        /\ next(beneficiaries(inv), inv).item = Some(inv.beneficiary)

\* C9: the iterator returned by beneficiaries() yields the primary
\* beneficiary, then the alternates in stored order, then None on every later
\* call; a new call of beneficiaries() starts again from the primary
\* beneficiary; no step of an enumeration changes the invoice.
C9_PrimaryThenAlternates == []DrawnInOrder /\ [][inv' = inv]_vars

\* the iterator of an invoice with the most alternates has been drawn from
\* until it returned None twice
C9_Witness ==
    /\ iter # <<>>
    /\ Len(inv.alt_beneficiaries) = MaxAlts
    /\ Len(out) = MaxAlts + 3
    /\ out[MaxAlts + 1] = Some(inv.alt_beneficiaries[MaxAlts])
    /\ out[MaxAlts + 2] = None /\ out[MaxAlts + 3] = None

---------------------------------------------------------------------------
(* Claim on the order of invoices, checked under SpecOrd *)

\* a < b in the order of strings: a is a proper prefix of b, or the first
\* position where they differ holds a smaller character in a
StrLess(a, b) ==
    \E k \in 1..(Len(a) + 1) :
        /\ k <= Len(b)
        /\ \A j \in 1..(k - 1) : a[j] = b[j]
        /\ (k = Len(a) + 1 \/ a[k] < b[k])

\* C10: the outcome of a comparison is Less exactly when the text of the
\* first invoice is below the text of the second in the order of strings,
\* Equal exactly when the texts are equal, Greater exactly when it is above;
\* partial_cmp gives Some of what cmp gives.
C10_OrderIsTextOrder ==
    ord # <<>> =>
        LET x == to_string(ord[1].self)
            y == to_string(ord[1].oth)
        IN  /\ (ord[1].val = Some("Less")) = StrLess(x, y)
            /\ (ord[1].val = Some("Equal")) = (x = y)
            /\ (ord[1].val = Some("Greater")) = StrLess(y, x)
            /\ partial_cmp(ord[1].self, ord[1].oth)
                   = Some(cmp(ord[1].self, ord[1].oth))

\* two invoices with the same amount, the first with a merchant the second
\* lacks, have been compared and are not equal
C10_Witness ==
    /\ ord # <<>> /\ ord[1].op = "cmp" /\ ord[1].val # Some("Equal")
    /\ ord[1].self.amount = ord[1].oth.amount
    /\ IsSome(ord[1].self.merchant) /\ ord[1].oth.merchant = None

---------------------------------------------------------------------------
(* Claims on the free-text fields, checked under Spec *)

\* C11: on every invoice built by new() and mutator calls, set_merchant("")
\* gives the invoice and the bool remove_merchant() gives, set_purpose("")
\* gives what remove_purpose() gives, and neither merchant nor purpose holds
\* a present empty string.
C11_EmptyIsAbsent ==
    /\ set_merchant(inv, <<>>) = remove_merchant(inv)
    /\ set_purpose(inv, <<>>) = remove_purpose(inv)
    /\ inv.merchant # Some(<<>>)
    /\ inv.purpose # Some(<<>>)

\* set_purpose("") has just removed a purpose from an invoice with a merchant
C11_Witness ==
    /\ last = [op |-> "set_purpose", arg |-> <<<<>>>>, ret |-> RetTrue]
    /\ inv.purpose = None /\ IsSome(inv.merchant)

---------------------------------------------------------------------------
(* Parsing an amount: impl FromStr for AmountExt, and atomic_value *)

\* how long the strings handed to the parsers are at most
MaxLen == 4
\* the largest u64 and the largest u16 of the model: the widths are scaled
\* down, so that a string of MaxLen digits can overflow either
MaxU64 == 100
MaxU16 == 10

\* the characters of the strings: ' ', '+', '.', '0', '1', 'A', 'a', 'n', 'y'
Alphabet == {32, 43, 46, 48, 49, 65, 97, 110, 121}
AmountStrings == SeqsUpTo(Alphabet, MaxLen)

\* Result<T, E>
Ok(v) == [ok |-> TRUE, val |-> v]
ParseIntError == [ok |-> FALSE, val |-> 0]
AmountParseError == [ok |-> FALSE, val |-> Any]

\* str::trim
RECURSIVE trim_start(_)
trim_start(s) == IF s # <<>> /\ Head(s) = 32 THEN trim_start(Tail(s)) ELSE s
RECURSIVE trim_end(_)
trim_end(s) ==
    IF s # <<>> /\ s[Len(s)] = 32 THEN trim_end(SubSeq(s, 1, Len(s) - 1)) ELSE s
trim(s) == trim_end(trim_start(s))

\* a lowercasing that leaves the string as it is
to_lowercase_not(s) == s

\* str::to_lowercase
to_lowercase(s) ==
    [k \in 1..Len(s) |-> IF s[k] \in 65..90 THEN s[k] + 32 ELSE s[k]]

\* str::split: the parts between the separators, at least one
RECURSIVE split(_, _)
split(s, sep) ==
    LET k == IndexOf(s, sep) IN
    IF k = Len(s) THEN <<s>>
    ELSE <<SubSeq(s, 1, k)>> \o split(SubSeq(s, k + 2, Len(s)), sep)

\* the digits of an unsigned integer, accumulated with checked arithmetic
RECURSIVE Digits(_, _, _)
Digits(s, acc, max) ==
    IF s = <<>> THEN Ok(acc)
    ELSE IF Head(s) \notin 48..57 THEN ParseIntError
    ELSE LET v == acc * 10 + (Head(s) - 48) IN
         IF v > max THEN ParseIntError ELSE Digits(Tail(s), v, max)

\* str::parse for an unsigned integer type: an optional '+', then digits
parse(s, max) ==
    LET digits == IF s # <<>> /\ Head(s) = 43 THEN Tail(s) ELSE s IN
    IF digits = <<>> THEN ParseIntError ELSE Digits(digits, 0, max)

\* <AmountExt as FromStr>::from_str; `?` turns a ParseIntError into an
\* AmountParseError
AmountExt_from_str(s) ==
    IF to_lowercase(trim(s)) = <<97, 110, 121>> THEN Ok(Any)
    ELSE LET parts == split(s, 46) IN
         IF Len(parts) = 1
         THEN LET amt == parse(parts[1], MaxU64) IN
              IF amt.ok THEN Ok(Normal(amt.val)) ELSE AmountParseError
         ELSE LET int == parse(parts[1], MaxU64)
                  frac == parse(parts[2], MaxU16)
              IN  IF int.ok /\ frac.ok THEN Ok(Milli(int.val, frac.val))
                  ELSE AmountParseError

\* AmountExt::atomic_value
atomic_value(self) ==
    CASE self.kind = "Any" -> None
      [] self.kind = "Normal" -> Some(self.int)
      [] self.kind = "Milli" -> None

InitAmount ==
    /\ inv = new(Beneficiary("Address", 1), None, None) /\ Fresh
    /\ other = <<>> /\ ord = <<>> /\ iter = <<>> /\ out = <<>>
    /\ target = <<>> /\ cls = <<>> /\ wire = <<>> /\ text = <<>> /\ hash = <<>>
    /\ calls = 0 /\ parsed = <<>> /\ atomic = <<>> /\ rgb = <<>>
    /\ input \in AmountStrings

\* the variables no parser touches
unparsed ==
    <<inv, last, other, ord, iter, out, target, cls, wire, text, hash, calls, rgb>>

ParseAmount ==
    /\ parsed' = <<AmountExt_from_str(input)>>
    /\ atomic' = <<>>
    /\ UNCHANGED <<unparsed, input>>

AtomicValue ==
    /\ parsed # <<>> /\ parsed[1].ok
    /\ atomic' = <<atomic_value(parsed[1].val)>>
    /\ UNCHANGED <<unparsed, input, parsed>>

NextAmount == ParseAmount \/ AtomicValue

SpecAmount == InitAmount /\ [][NextAmount]_vars

---------------------------------------------------------------------------
(* Claim on the amount grammar, checked under SpecAmount *)

\* one or more decimal digits
IsDecimal(s) == s # <<>> /\ \A k \in 1..Len(s) : s[k] \in 48..57

\* the number a string of decimal digits writes
RECURSIVE DecimalValue(_)
DecimalValue(s) ==
    IF s = <<>> THEN 0
    ELSE 10 * DecimalValue(SubSeq(s, 1, Len(s) - 1)) + (s[Len(s)] - 48)

\* the decimal string of a value of an unsigned type with the largest value max
DecimalOf(s, max) == IsDecimal(s) /\ DecimalValue(s) <= max

\* "any" in any letter case
AnyCase(s) ==
    Len(s) = 3 /\ s[1] \in {65, 97} /\ s[2] \in {78, 110} /\ s[3] \in {89, 121}

\* "any" in any letter case between spaces
AnyPadded(s) ==
    \E a, b \in 0..Len(s) :
        /\ a + 3 + b = Len(s)
        /\ \A k \in 1..Len(s) : (k <= a \/ k > a + 3) => s[k] = 32
        /\ AnyCase(SubSeq(s, a + 1, a + 3))

NoDot(s) == \A k \in 1..Len(s) : s[k] # 46

\* what the grammar gives for "any", for a u64 and for "i.f"; which amounts
\* have an atomic value
Accepted ==
    /\ AnyCase(input) => parsed[1] = Ok(Any)
    /\ DecimalOf(input, MaxU64) => parsed[1] = Ok(Normal(DecimalValue(input)))
    /\ \A k \in 1..Len(input) :
        LET i == SubSeq(input, 1, k - 1)
            f == SubSeq(input, k + 1, Len(input))
        IN  (input[k] = 46 /\ DecimalOf(i, MaxU64) /\ DecimalOf(f, MaxU16))
                => parsed[1] = Ok(Milli(DecimalValue(i), DecimalValue(f)))
    /\ atomic # <<>> =>
        /\ IsSome(atomic[1]) = (parsed[1].val.kind = "Normal")
        /\ IsSome(atomic[1]) => atomic[1] = Some(parsed[1].val.int)

\* C12 as stated: "any" in any letter case parses to Any, the decimal string
\* of a u64 n to Normal(n), "i.f" of a u64 and a u16 to Milli(i, f); a string
\* with no '.' that is neither "any" nor a u64 decimal fails with
\* AmountParseError; only Normal has an atomic value.
C12_Grammar ==
    parsed # <<>> =>
        /\ Accepted
        /\ (NoDot(input) /\ ~AnyCase(input) /\ ~DecimalOf(input, MaxU64))
            => parsed[1] = AmountParseError

\* C12 as amended: as stated for "any", u64 decimals, "i.f" and the atomic
\* value; "any" in any letter case also parses to Any with spaces around it,
\* and a u64 decimal also parses with a '+' before it; a string with no '.'
\* that is none of these fails with AmountParseError.
C12_GrammarTrimmed ==
    parsed # <<>> =>
        /\ Accepted
        /\ AnyPadded(input) => parsed[1] = Ok(Any)
        /\ (input # <<>> /\ Head(input) = 43 /\ DecimalOf(Tail(input), MaxU64))
            => parsed[1] = Ok(Normal(DecimalValue(Tail(input))))
        /\ (/\ NoDot(input) /\ ~AnyPadded(input) /\ ~DecimalOf(input, MaxU64)
            /\ ~(input # <<>> /\ Head(input) = 43 /\ DecimalOf(Tail(input), MaxU64)))
            => parsed[1] = AmountParseError

\* a string of letters that is not "any" has failed to parse
C12_Witness ==
    /\ input = <<110, 97, 121>>
    /\ parsed = <<AmountParseError>>

---------------------------------------------------------------------------
(* Parsing a beneficiary: impl FromStr for Beneficiary *)

\* what a grammar reads out of a string it accepts
Payloads == 1..(MaxVal + 2)

\* a string, as what each of the three grammars makes of it: None where the
\* grammar rejects the string (Address::from_str, ConcealedSeal::from_str and
\* Descriptor::from_str are not part of this crate)
BeneficiaryStrings ==
    [address : Option(Payloads), seal : Option(Payloads),
     descriptor : Option(Payloads)]

BeneficiaryParseError == [ok |-> FALSE, val |-> Beneficiary("", 0)]

\* a parser that tries the concealed seal before the address
Beneficiary_from_str_seal_first(s) ==
    IF IsSome(s.seal) THEN Ok(Beneficiary("BlindUtxo", s.seal[1]))
    ELSE IF IsSome(s.address) THEN Ok(Beneficiary("Address", s.address[1]))
    ELSE IF IsSome(s.descriptor)
         THEN Ok(Beneficiary("Descriptor", s.descriptor[1]))
    ELSE BeneficiaryParseError

\* <Beneficiary as FromStr>::from_str
Beneficiary_from_str(s) ==
    IF IsSome(s.address) THEN Ok(Beneficiary("Address", s.address[1]))
    ELSE IF IsSome(s.seal) THEN Ok(Beneficiary("BlindUtxo", s.seal[1]))
    ELSE IF IsSome(s.descriptor)
         THEN Ok(Beneficiary("Descriptor", s.descriptor[1]))
    ELSE BeneficiaryParseError

InitBeneficiary ==
    /\ inv = new(Beneficiary("Address", 1), None, None) /\ Fresh
    /\ other = <<>> /\ ord = <<>> /\ iter = <<>> /\ out = <<>>
    /\ target = <<>> /\ cls = <<>> /\ wire = <<>> /\ text = <<>> /\ hash = <<>>
    /\ calls = 0 /\ parsed = <<>> /\ atomic = <<>> /\ rgb = <<>>
    /\ input \in BeneficiaryStrings

ParseBeneficiary ==
    /\ parsed' = <<Beneficiary_from_str(input)>>
    /\ UNCHANGED <<unparsed, input, atomic>>

NextBeneficiary == ParseBeneficiary

SpecBeneficiary == InitBeneficiary /\ [][NextBeneficiary]_vars

---------------------------------------------------------------------------
(* Claim on the beneficiary grammar, checked under SpecBeneficiary *)

\* C13: the result is the Address the address grammar reads when it accepts
\* the string; otherwise the BlindUtxo the concealed-seal grammar reads when
\* it accepts; otherwise the Descriptor the descriptor grammar reads when it
\* accepts; it is BeneficiaryParseError exactly when all three reject; it is
\* never a Psbt, a Bolt or an Unknown beneficiary.
C13_FirstGrammarWins ==
    parsed # <<>> =>
        /\ IsSome(input.address)
            => parsed[1] = Ok(Beneficiary("Address", input.address[1]))
        /\ (input.address = None /\ IsSome(input.seal))
            => parsed[1] = Ok(Beneficiary("BlindUtxo", input.seal[1]))
        /\ (input.address = None /\ input.seal = None /\ IsSome(input.descriptor))
            => parsed[1] = Ok(Beneficiary("Descriptor", input.descriptor[1]))
        /\ (parsed[1] = BeneficiaryParseError)
            = (input.address = None /\ input.seal = None /\ input.descriptor = None)
        /\ parsed[1].ok => parsed[1].val.kind \notin {"Psbt", "Bolt", "Unknown"}

\* a string all three grammars accept has been parsed as an address
C13_Witness ==
    /\ parsed # <<>> /\ parsed[1].ok /\ parsed[1].val.kind = "Address"
    /\ IsSome(input.seal) /\ IsSome(input.descriptor)

---------------------------------------------------------------------------
(* Claims on what a mutator leaves alone, checked under Spec *)

\* the name of the field the operation op is about
FieldName(op) ==
    CASE op = "set_amount" -> "amount"
      [] op = "set_recurrent" -> "recurrent"
      [] op \in {"set_expiry", "set_no_expiry"} -> "expiry"
      [] op \in {"set_quantity", "remove_quantity"} -> "quantity"
      [] op \in {"set_currency_requirement", "remove_currency_requirement"} ->
            "currency_requirement"
      [] op \in {"set_merchant", "remove_merchant"} -> "merchant"
      [] op \in {"set_purpose", "remove_purpose"} -> "purpose"
      [] op \in {"set_details", "remove_details"} -> "details"
      [] op = "add_consignment_endpoint" -> "consignment_endpoints"
      [] op = "set_network" -> "network"
      [] OTHER -> "signature"

\* the fields no mutator is about
Constructed_fields ==
    {"beneficiary", "alt_beneficiaries", "version", "asset", "unknown"}

\* the invoice j differs from the invoice i in the field of op and in the
\* signature at most
OwnFieldOnly(op, i, j) ==
    \A f \in DOMAIN i : j[f] # i[f] => f \in {FieldName(op), "signature"}

\* the invoice the same calls give when new() was given a concealed UTXO and
\* an asset: no mutator reads the beneficiary or the asset
WithAsset(i) ==
    [i EXCEPT !.beneficiary = Beneficiary("BlindUtxo", 2),
              !.asset = Some(100 + MaxVal)]

\* every bool-returning mutator keeps the fields no mutator is about, and
\* changes its own field and the signature at most, on the invoice i
KeptBy(i) ==
    \A c \in SetterCalls \cup RemoverCalls :
        LET j == Apply(c, i).inv IN
        /\ \A f \in Constructed_fields : j[f] = i[f]
        /\ OwnFieldOnly(c.op, i, j)

\* C14: no call of a mutator, set_signature and remove_signature included,
\* changes beneficiary, alt_beneficiaries, version, asset or the unknown
\* stream, so they keep the values new() gave them; a call changes its own
\* field and the signature at most.  The same holds of every bool-returning
\* mutator on the invoice constructed with another beneficiary and an asset.
C14_PrimaryKept ==
    /\ [][/\ \A f \in Constructed_fields : inv'[f] = inv[f]
          /\ OwnFieldOnly(last'.op, inv, inv')]_vars
    /\ []KeptBy(WithAsset(inv))

\* remove_purpose has just removed the purpose and cleared the signature of an
\* invoice that keeps its merchant and its endpoint
C14_Witness ==
    /\ last = [op |-> "remove_purpose", arg |-> <<>>, ret |-> RetTrue]
    /\ IsSome(inv.merchant) /\ inv.consignment_endpoints # <<>>
    /\ inv.beneficiary = Beneficiary("Address", 1)

\* a (public key, signature) pair other than the one the callers of Spec pass
OtherSignature == [pubkey |-> 2, sig |-> 4]

\* set_signature on the invoice i leaves the pair given as the signature, and
\* remove_signature none, whatever the signature was; the rest of i is kept
SignatureManaged(i) ==
    /\ \A s \in Signatures \cup {OtherSignature} :
        LET j == set_signature(i, s.pubkey, s.sig) IN
        /\ j.signature = Some(s)
        /\ \A f \in DOMAIN i \ {"signature"} : j[f] = i[f]
    /\ LET j == remove_signature(i) IN
        /\ j.signature = None
        /\ \A f \in DOMAIN i \ {"signature"} : j[f] = i[f]

\* C15: a call of set_signature leaves the pair given as the signature, a call
\* of remove_signature leaves none, and neither changes another field; this
\* also on an invoice already signed with another pair; a step of any other
\* operation that changes the signature is a field mutator returning true and
\* leaving no signature.
C15_SignatureManaged ==
    /\ [][/\ last'.op = "set_signature"
                => inv' = [inv EXCEPT !.signature = Some(last'.arg[1])]
          /\ last'.op = "remove_signature"
                => inv' = [inv EXCEPT !.signature = None]
          /\ (inv'.signature # inv.signature
              /\ last'.op \notin {"set_signature", "remove_signature"})
                => (/\ last'.op \in MutatorOps /\ last'.ret = RetTrue
                    /\ inv'.signature = None)]_vars
    /\ [](/\ SignatureManaged(inv)
          /\ SignatureManaged(set_signature(inv, OtherSignature.pubkey,
                                            OtherSignature.sig)))

\* set_signature has just been called on a signed invoice with a network
C15_Witness ==
    /\ last.op = "set_signature"
    /\ inv.signature = Some(last.arg[1])
    /\ IsSome(inv.network) /\ IsSome(inv.expiry)

---------------------------------------------------------------------------
(* Delivery: endpoints and network of an invoice that may be signed *)

\* the endpoints announced: those of Endpoints and two more
EndpointPool ==
    Endpoints
    \cup {Storm(<<MaxEndpoints + 1>>), RgbHttpJsonRpc(<<MaxEndpoints + 2>>)}

AnnounceEndpoint ==
    \E e \in EndpointPool :
        Call("add_consignment_endpoint", <<e>>, add_consignment_endpoint(inv, e))

NextDelivery ==
    \/ AnnounceEndpoint
    \/ SetNetwork
    \/ SetSignature
    \/ RemoveSignature

SpecDelivery == Init /\ [][NextDelivery]_vars

---------------------------------------------------------------------------
(* Claims on the endpoints and the network, checked under SpecDelivery *)

IsPrefix(a, b) == Len(a) <= Len(b) /\ SubSeq(b, 1, Len(a)) = a

\* C20: the list never holds an endpoint twice; no step removes or moves an
\* entry of it; add_consignment_endpoint(e) returns false exactly when e is
\* in the list, and then changes nothing; when it returns true the list is
\* the old list with e appended, so the entries stand in the order of their
\* first insertion.
C20_OrderedSet ==
    /\ [](\A j, k \in 1..Len(inv.consignment_endpoints) :
            j # k => inv.consignment_endpoints[j] # inv.consignment_endpoints[k])
    /\ [][/\ IsPrefix(inv.consignment_endpoints, inv'.consignment_endpoints)
          /\ last'.op = "add_consignment_endpoint" =>
                /\ (last'.ret = RetFalse)
                     = Contains(inv.consignment_endpoints, last'.arg[1])
                /\ last'.ret = RetFalse => inv' = inv
                /\ last'.ret = RetTrue =>
                     inv'.consignment_endpoints
                        = Append(inv.consignment_endpoints, last'.arg[1])]_vars

\* the first endpoint added has just been added again and refused, the list
\* holding three endpoints
C20_Witness ==
    /\ last.op = "add_consignment_endpoint" /\ last.ret = RetFalse
    /\ Len(inv.consignment_endpoints) = 3
    /\ inv.consignment_endpoints[1] = last.arg[1]

---------------------------------------------------------------------------
(* Claims on is_rgb and rgb_asset, checked under SpecClassify *)

\* C17: is_rgb() is true exactly when rgb_asset() is None: exactly when the
\* asset is absent or is the native asset of Mainnet, Signet, LiquidV1 or
\* Testnet3; it is false exactly when rgb_asset() returns a contract id.
C17_IsRgbNegated ==
    LET native ==
            \/ inv.asset = None
            \/ \E c \in {"Mainnet", "Signet", "LiquidV1", "Testnet3"} :
                    inv.asset = Some(native_asset(c))
    IN  /\ is_rgb(inv) = (rgb_asset(inv) = None)
        /\ is_rgb(inv) = native
        /\ (rgb # <<>> /\ rgb[1].op = "is_rgb") =>
                /\ rgb[1].flag = native
                /\ rgb[1].flag = ~IsSome(rgb_asset(inv))
        /\ (rgb # <<>> /\ rgb[1].op = "rgb_asset") =>
                IsSome(rgb[1].id) = ~native

\* is_rgb has returned true for an invoice with the Signet native asset, and
\* false is what it returns for a contract asset
C17_Witness ==
    /\ rgb # <<>> /\ rgb[1].op = "is_rgb" /\ rgb[1].flag
    /\ inv.asset = Some(native_asset("Signet"))
    /\ ~is_rgb([inv EXCEPT !.asset = Some(100 + MaxVal)])

\* C18: once rgb_asset() and classify_asset(target) have both been called on
\* the invoice, for any target chain or an absent one, rgb_asset() gave
\* Some(id) exactly when classify_asset gave Rgb(id), and None exactly when
\* classify_asset gave Native or InvalidNativeChain.
C18_RgbAgrees ==
    (cls # <<>> /\ rgb # <<>> /\ rgb[1].op = "rgb_asset") =>
        /\ \A id \in AssetIds : (rgb[1].id = Some(id)) = (cls[1] = Rgb(id))
        /\ (rgb[1].id = None) = (cls[1] \in {Native, InvalidNativeChain})

---------------------------------------------------------------------------
(* The chain-aware constructors: with_descriptor and with_address *)

\* bitcoin::Network, and the Chain each network converts into
BitcoinNetworks == <<"Bitcoin", "Testnet", "Signet", "Regtest">>
ChainOfNetwork(n) ==
    CASE n = "Bitcoin" -> "Mainnet"
      [] n = "Testnet" -> "Testnet3"
      [] n = "Signet" -> "Signet"
      [] n = "Regtest" -> "Regtest"

\* addresses, one per network: address.network
Addresses == 1..Len(BitcoinNetworks)
address_network(address) == BitcoinNetworks[address]

\* AssetId::native: the native asset of the chain of a network
AssetId_native(chain) == native_asset(chain)

Descriptors == {1}
AmountArgs == {None, Some(MaxVal)}

\* with_descriptor that leaves the asset out on every chain
with_descriptor_no_asset(descr, amount, chain) ==
    new(Beneficiary("Descriptor", descr), amount, None)

\* Invoice::with_descriptor
with_descriptor(descr, amount, chain) ==
    new(Beneficiary("Descriptor", descr), amount,
        IF chain = "Mainnet" THEN None ELSE Some(native_asset(chain)))

\* Invoice::with_address
with_address(address, amount) ==
    LET asset == IF address_network(address) # "Bitcoin"
                 THEN Some(AssetId_native(ChainOfNetwork(address_network(address))))
                 ELSE None
    IN  new(Beneficiary("Address", address), amount, asset)

\* a constructor returns the invoice i: nothing has been asked of it yet
Construct(op, arg, i) ==
    /\ inv' = i
    /\ last' = [op |-> op, arg |-> arg, ret |-> RetUnit]
    /\ target' = <<>> /\ cls' = <<>>
    /\ UNCHANGED <<other, ord, iter, out, wire, text, hash, calls, aside>>

WithDescriptor ==
    \E d \in Descriptors, a \in AmountArgs, c \in Chain :
        Construct("with_descriptor", <<c>>, with_descriptor(d, a, c))

WithAddress ==
    \E ad \in Addresses, a \in AmountArgs :
        Construct("with_address", <<ChainOfNetwork(address_network(ad))>>,
                  with_address(ad, a))

NextConstruct == WithDescriptor \/ WithAddress \/ ClassifyAsset

SpecConstruct == Init /\ [][NextConstruct]_vars

---------------------------------------------------------------------------
(* Claim on the constructors, checked under SpecConstruct *)

\* C19: an invoice made by with_descriptor for the chain c, or by
\* with_address for an address of the network of the chain c, classifies as
\* Native for the target c, and has no asset exactly when c is Mainnet; so
\* says classify_asset when it is called with that target.
C19_NativeOnOwnChain ==
    last.op \in {"with_descriptor", "with_address"} =>
        LET c == last.arg[1] IN
        /\ classify_asset(inv, Some(c)) = Native
        /\ (inv.asset = None) = (c = "Mainnet")
        /\ (cls # <<>> /\ target = Some(c)) => cls[1] = Native

\* an invoice made by with_descriptor for Regtest has been classified for
\* Regtest
C19_Witness ==
    /\ last.op = "with_descriptor" /\ last.arg = <<"Regtest">>
    /\ target = Some("Regtest") /\ cls = <<Native>>
    /\ inv.asset = Some(native_asset("Regtest"))

====
